---- MODULE Spec2Model ----
(***************************************************************************)
(* Verification model of infra-genie: the scanner template method          *)
(* (BaseScanner.scan and the per-type get_resources_in_use), the region    *)
(* fan-out (RegionManager.scan_regions) and the deletion protocol          *)
(* (SecurityGroupCleaner, DeleteSummary).                                  *)
(*                                                                         *)
(* Three specifications share the module: ScanSpec, RegionSpec and         *)
(* CleanerSpec (plus SummarySpec for DeleteSummary alone).  Each one       *)
(* drives its own group of variables and leaves the others untouched.      *)
(***************************************************************************)
EXTENDS Integers, Sequences, FiniteSets, TLC

(***************************************************************************)
(* Bounds                                                                  *)
(***************************************************************************)
\* number of distinct resource identifiers the remote listings can return
NumIds == 2
\* longest inventory listing
MaxInventory == 2

\* number of distinct region names
NumRegionNames == 2
\* longest region list passed to scan_regions
MaxRegions == 2
\* largest worker-pool size
MaxWorkers == 2
\* largest total_count a region's ScanResult reports
MaxCount == 1

\* most pages a paginated listing of a collector has
MaxPages == 2
\* longest list of security groups handed to the cleaner
MaxItems == 2
\* longest run of add_result calls on a bare DeleteSummary
MaxResults == 2

\* identifiers: 0 stands for a missing or empty id (falsy in the source)
Ids == 1..NumIds
IdsOrNone == 0..NumIds

(***************************************************************************)
(* Scanner state                                                           *)
(***************************************************************************)
VARIABLES
    resource_type,      \* which scanner subclass runs (get_resource_type)
    exclude_default,    \* constructor flag of SG / VPC / subnet scanners
    inventory,          \* what the remote inventory listing holds
    scan_pc,            \* position inside scan()
    all_resources,      \* scan(): all_resources
    total_count,        \* scan(): total_count
    scan_errors,        \* scan(): errors
    fetch_status,       \* get_all_resources(): "pending" | "returned" |
                        \* "raised"
    source_idx,         \* get_resources_in_use(): next entry of sources
    used_sgs,           \* get_resources_in_use(): the accumulating used set
    used_ids,           \* scan(): used_ids
    unused_resources,   \* scan(): unused_resources of the ScanResult
    in_use_status,      \* "pending" | "returned" | "raised"
    returned_union,     \* union of the outputs of the sources that returned
    n_raised,           \* number of listed sources that raised
    default_ids         \* what the default-resource lookup returned

scanVars == <<resource_type, exclude_default, inventory, scan_pc,
              all_resources, total_count, scan_errors, fetch_status,
              source_idx, used_sgs,
              used_ids, unused_resources, in_use_status, returned_union,
              n_raised, default_ids>>

(***************************************************************************)
(* Region orchestrator state                                               *)
(***************************************************************************)
VARIABLES
    regions_arg,        \* scan_regions(regions=...): a list, or <<"None">>
    regions,            \* scan_regions(): regions after discovery
    max_workers,        \* RegionManager.max_workers
    progress_callback,  \* "none" | "quiet" | "raising"
    reg_pc,             \* position of scan_regions(): begin, pool, unwinding,
                        \* returned, raised
    submitted,          \* number of executor.submit calls made so far
    task,               \* per list entry: "queued" | "running" | "done"
    future,             \* per list entry: what the future holds when done
    evaluated,          \* per list entry: "no" | "result" | "threw"
    yielded,            \* per list entry: what the scan of the region gave
                        \* by itself, whatever the callback did afterwards
    notified,           \* per list entry: statuses passed to the callback
    merged,             \* futures already taken from as_completed
    results_by_region,  \* scan_regions(): results_by_region
    errors,             \* scan_regions(): errors
    total_resources,    \* scan_regions(): total_resources
    total_unused        \* scan_regions(): total_unused

regionVars == <<regions_arg, regions, max_workers, progress_callback, reg_pc,
                submitted, task, future, evaluated, yielded, notified,
                merged, results_by_region, errors, total_resources,
                total_unused>>

(***************************************************************************)
(* Cleaner state                                                           *)
(***************************************************************************)
VARIABLES
    op,                 \* the SecurityGroupCleaner / DeleteSummary method run
    items,              \* security_groups argument (one entry for a single
                        \* delete_security_group call)
    dry_run_arg,        \* "omitted" | "True" | "False"
    cl_progress,        \* progress_callback: "none" | "quiet" | "raising"
    cl_pc,              \* "start" | "loop" | "done" | "raised"
    item_idx,           \* position of `for sg in security_groups:`
    summary,            \* the DeleteSummary
    returned,           \* what a single delete_security_group call returned
    ec2_client,         \* SecurityGroupCleaner._ec2_client: "None" | "client"
    remote_calls,       \* ec2.delete_security_group calls issued so far
    confirmations,      \* what confirm_callback did for each item so far
    progress_seen       \* the calls of progress_callback made so far

cleanerVars == <<op, items, dry_run_arg, cl_progress, cl_pc, item_idx,
                 summary, returned, ec2_client, remote_calls, confirmations,
                 progress_seen>>

(***************************************************************************)
(* Collector state: one paginated usage collector of a scanner             *)
(***************************************************************************)
VARIABLES
    col_pages,          \* the ids each page of the remote listing holds
    col_fail_at,        \* the page whose request fails (0: none does)
    col_error,          \* "none" | "ClientError" | "other"
    col_pc,             \* "paging" | "returned" | "raised"
    col_page_idx,       \* next page of `for page in paginator.paginate():`
    sg_ids              \* the collector's local set of ids

collectorVars == <<col_pages, col_fail_at, col_error, col_pc, col_page_idx,
                   sg_ids>>

vars == <<scanVars, regionVars, cleanerVars, collectorVars>>

ResourceTypes == {"security_group", "vpc", "subnet", "elastic_ip"}

\* the scanners whose constructor takes exclude_default
HasExcludeDefault(rt) == rt \in {"security_group", "vpc", "subnet"}

\* length of the `sources` list of each scanner's get_resources_in_use
NumSources(rt) ==
    CASE rt = "security_group" -> 6
      [] rt = "vpc"            -> 13
      [] rt = "subnet"         -> 9
      [] rt = "elastic_ip"     -> 2

\* an inventory record: the keys scan() reads
ResourceRecord == [id : IdsOrNone, is_default : BOOLEAN]

RECURSIVE SeqsUpTo(_, _)
SeqsUpTo(S, n) ==
    IF n = 0 THEN {<<>>}
    ELSE LET shorter == SeqsUpTo(S, n - 1)
         IN  shorter \cup {Append(s, x) : s \in {t \in shorter : Len(t) = n - 1}, x \in S}

Range(s) == {s[i] : i \in DOMAIN s}

ErrAllResources == "Failed to get all resources"
ErrInUse == "Failed to get resources in use"

(***************************************************************************)
(* Pure steps of the scanner                                               *)
(***************************************************************************)
\* one iteration of `for source_name, fetch_func in sources:` --
\* the source either returns a set (used.update) or raises (logged, skipped)
AfterSource(used, raised, out) == IF raised THEN used ELSE used \cup out

\* the `for resource in all_resources:` loop of scan()
ComputeUnusedNoMembership(resources, used) ==
    SelectSeq(resources, LAMBDA r : r.id # 0)
ComputeUnusedNewestFirst(resources, used) ==
    LET kept == SelectSeq(resources, LAMBDA r : r.id # 0 /\ r.id \notin used)
    IN  [i \in 1..Len(kept) |-> kept[Len(kept) + 1 - i]]
ComputeUnused(resources, used) ==
    SelectSeq(resources, LAMBDA r : r.id # 0 /\ r.id \notin used)

(***************************************************************************)
(* scan(): construction                                                    *)
(***************************************************************************)
ScanInit ==
    /\ resource_type \in ResourceTypes
    /\ exclude_default \in BOOLEAN
    /\ (~HasExcludeDefault(resource_type) => exclude_default = FALSE)
    /\ inventory \in SeqsUpTo(ResourceRecord, MaxInventory)
    /\ scan_pc = "fetch"
    /\ all_resources = <<>>
    /\ total_count = 0
    /\ scan_errors = <<>>
    /\ fetch_status = "pending"
    /\ source_idx = 1
    /\ used_sgs = {}
    /\ used_ids = {}
    /\ unused_resources = <<>>
    /\ in_use_status = "pending"
    /\ returned_union = {}
    /\ n_raised = 0
    /\ default_ids = {}

\* scan(): the `except Exception` branch of "Fetch all resources"
FetchFailedUnrecorded(errs) ==
    [errors |-> errs, all_resources |-> <<>>, total_count |-> 0]
FetchFailed(errs) ==
    [errors |-> Append(errs, ErrAllResources), all_resources |-> <<>>,
     total_count |-> 0]

\* scan(): "Fetch all resources" -- get_all_resources() returns or raises
FetchAllResources ==
    /\ scan_pc = "fetch"
    /\ \E fails \in BOOLEAN :
         IF fails
         THEN LET f == FetchFailed(scan_errors)
              IN  /\ scan_errors' = f.errors
                  /\ all_resources' = f.all_resources
                  /\ total_count' = f.total_count
                  /\ fetch_status' = "raised"
         ELSE /\ all_resources' = inventory
              /\ total_count' = Len(inventory)
              /\ fetch_status' = "returned"
              /\ UNCHANGED scan_errors
    /\ scan_pc' = "sources"
    /\ UNCHANGED <<regionVars, cleanerVars, collectorVars>>
    /\ UNCHANGED <<resource_type, exclude_default, inventory, source_idx,
                   used_sgs, used_ids, unused_resources, in_use_status,
                   returned_union, n_raised, default_ids>>

\* get_resources_in_use(): one listed source is called inside its try/except
RunSource ==
    /\ scan_pc = "sources"
    /\ source_idx <= NumSources(resource_type)
    /\ \E raised \in BOOLEAN, out \in SUBSET Ids :
         /\ (raised => out = {})
         /\ used_sgs' = AfterSource(used_sgs, raised, out)
         /\ returned_union' = IF raised THEN returned_union
                              ELSE returned_union \cup out
         /\ n_raised' = IF raised THEN n_raised + 1 ELSE n_raised
    /\ source_idx' = source_idx + 1
    /\ UNCHANGED <<regionVars, cleanerVars, collectorVars>>
    /\ UNCHANGED <<resource_type, exclude_default, inventory, scan_pc,
                   all_resources, total_count, scan_errors, fetch_status,
                   used_ids,
                   unused_resources, in_use_status, default_ids>>

\* get_resources_in_use(): the tail after the loop (default lookup, return),
\* and scan()'s try/except around the whole call
FinishResourcesInUse ==
    /\ scan_pc = "sources"
    /\ source_idx > NumSources(resource_type)
    /\ IF exclude_default
       THEN \E raised \in BOOLEAN, out \in SUBSET Ids :
              /\ (raised => out = {})
              /\ IF raised
                 THEN /\ in_use_status' = "raised"
                      /\ scan_errors' = Append(scan_errors, ErrInUse)
                      /\ used_ids' = {}
                      /\ UNCHANGED <<used_sgs, default_ids>>
                 ELSE /\ in_use_status' = "returned"
                      /\ default_ids' = out
                      /\ used_sgs' = used_sgs \cup out
                      /\ used_ids' = used_sgs \cup out
                      /\ UNCHANGED scan_errors
       ELSE /\ in_use_status' = "returned"
            /\ used_ids' = used_sgs
            /\ UNCHANGED <<used_sgs, default_ids, scan_errors>>
    /\ scan_pc' = "compute"
    /\ UNCHANGED <<regionVars, cleanerVars, collectorVars>>
    /\ UNCHANGED <<resource_type, exclude_default, inventory, all_resources,
                   total_count, fetch_status, source_idx, unused_resources,
                   returned_union, n_raised>>

\* scan(): "Compute unused resources" and build the ScanResult
BuildScanResult ==
    /\ scan_pc = "compute"
    /\ unused_resources' = ComputeUnused(all_resources, used_ids)
    /\ scan_pc' = "done"
    /\ UNCHANGED <<regionVars, cleanerVars, collectorVars>>
    /\ UNCHANGED <<resource_type, exclude_default, inventory, all_resources,
                   total_count, scan_errors, fetch_status, source_idx,
                   used_sgs, used_ids,
                   in_use_status, returned_union, n_raised, default_ids>>

ScanNext ==
    \/ FetchAllResources
    \/ RunSource
    \/ FinishResourcesInUse
    \/ BuildScanResult

(***************************************************************************)
(* EIPScanner: scan() over the address records of describe_addresses       *)
(***************************************************************************)
\* an address record of the listing: AllocationId 0 stands for a record
\* without that key, AssociationId says whether the key is present
AddressRecords == [AllocationId : IdsOrNone, AssociationId : BOOLEAN]

\* the "N/A" placeholder of address.get("AllocationId", "N/A")
NotAvailable == -1

\* get_all_resources(): the dict built for one address record; "id" and
\* "allocation_id" are the one value address.get("AllocationId", "N/A")
EipResource(address) ==
    LET allocation_id == IF address.AllocationId = 0 THEN NotAvailable
                         ELSE address.AllocationId
    IN  [id |-> allocation_id,
         allocation_id |-> allocation_id,
         association_id |-> address.AssociationId]

\* _get_associated_eips(): allocation ids of the records with an association
AssociatedEips(addresses) ==
    {addresses[i].AllocationId : i \in
        {j \in DOMAIN addresses : /\ addresses[j].AssociationId
                                  /\ addresses[j].AllocationId # 0}}

EipInit ==
    /\ resource_type = "elastic_ip"
    /\ exclude_default = FALSE
    /\ inventory \in SeqsUpTo(AddressRecords, MaxInventory)
    /\ scan_pc = "fetch"
    /\ all_resources = <<>>
    /\ total_count = 0
    /\ scan_errors = <<>>
    /\ fetch_status = "pending"
    /\ source_idx = 1
    /\ used_sgs = {}
    /\ used_ids = {}
    /\ unused_resources = <<>>
    /\ in_use_status = "pending"
    /\ returned_union = {}
    /\ n_raised = 0
    /\ default_ids = {}

\* scan(): "Fetch all resources" with EIPScanner.get_all_resources, which
\* re-raises a ClientError of describe_addresses
EipFetchAllResources ==
    /\ scan_pc = "fetch"
    /\ \E fails \in BOOLEAN :
         IF fails
         THEN LET f == FetchFailed(scan_errors)
              IN  /\ scan_errors' = f.errors
                  /\ all_resources' = f.all_resources
                  /\ total_count' = f.total_count
                  /\ fetch_status' = "raised"
         ELSE /\ all_resources' =
                   [i \in DOMAIN inventory |-> EipResource(inventory[i])]
              /\ total_count' = Len(inventory)
              /\ fetch_status' = "returned"
              /\ UNCHANGED scan_errors
    /\ scan_pc' = "sources"
    /\ UNCHANGED <<regionVars, cleanerVars, collectorVars>>
    /\ UNCHANGED <<resource_type, exclude_default, inventory, source_idx,
                   used_sgs, used_ids, unused_resources, in_use_status,
                   returned_union, n_raised, default_ids>>

\* get_resources_in_use(): the "Associated EIPs" source.  It issues its own
\* describe_addresses call, so it reads the listing the remote side holds at
\* that moment (inventory'), which need not be the one get_all_resources
\* read.  A ClientError of that call is swallowed inside
\* _get_associated_eips, any other exception by the loop of
\* get_resources_in_use
EipAssociatedSource ==
    /\ scan_pc = "sources"
    /\ source_idx = 1
    /\ inventory' \in SeqsUpTo(AddressRecords, MaxInventory)
    /\ \E ending \in {"ok", "ClientError", "other"} :
         LET raised == ending = "other"
             out == IF ending = "ok" THEN AssociatedEips(inventory') ELSE {}
         IN  /\ used_sgs' = AfterSource(used_sgs, raised, out)
             /\ returned_union' = IF raised THEN returned_union
                                  ELSE returned_union \cup out
             /\ n_raised' = IF raised THEN n_raised + 1 ELSE n_raised
    /\ source_idx' = source_idx + 1
    /\ UNCHANGED <<regionVars, cleanerVars, collectorVars>>
    /\ UNCHANGED <<resource_type, exclude_default, scan_pc,
                   all_resources, total_count, scan_errors, fetch_status,
                   used_ids, unused_resources, in_use_status, default_ids>>

\* get_resources_in_use(): the "NAT Gateway EIPs" source
EipNatGatewaySource ==
    /\ scan_pc = "sources"
    /\ source_idx = 2
    /\ \E raised \in BOOLEAN, out \in SUBSET Ids :
         /\ (raised => out = {})
         /\ used_sgs' = AfterSource(used_sgs, raised, out)
         /\ returned_union' = IF raised THEN returned_union
                              ELSE returned_union \cup out
         /\ n_raised' = IF raised THEN n_raised + 1 ELSE n_raised
    /\ source_idx' = source_idx + 1
    /\ UNCHANGED <<regionVars, cleanerVars, collectorVars>>
    /\ UNCHANGED <<resource_type, exclude_default, inventory, scan_pc,
                   all_resources, total_count, scan_errors, fetch_status,
                   used_ids, unused_resources, in_use_status, default_ids>>

EipNext ==
    \/ EipFetchAllResources
    \/ EipAssociatedSource
    \/ EipNatGatewaySource
    \/ FinishResourcesInUse
    \/ BuildScanResult

(***************************************************************************)
(* A paginated collector (_get_sgs_from_ec2_instances and its siblings)    *)
(***************************************************************************)
\* the paginated listings a collector can meet: at least one page
PageLists == {l \in SeqsUpTo(SUBSET Ids, MaxPages) : l # <<>>}

\* the body of the page loop: the ids of one page join the local set
AfterPage(ids, page) == ids \cup page

\* `except ClientError as e:` logs a warning; `return sg_ids` follows
OnClientErrorEmpty(ids) == {}
OnClientError(ids) == ids

CollectorInit ==
    /\ col_pages \in PageLists
    /\ col_fail_at \in 0..Len(col_pages)
    /\ col_error \in {"none", "ClientError", "other"}
    /\ (col_error = "none" <=> col_fail_at = 0)
    /\ col_pc = "paging"
    /\ col_page_idx = 1
    /\ sg_ids = {}

\* one page is fetched and its ids are added
ReadPage ==
    /\ col_pc = "paging"
    /\ col_page_idx <= Len(col_pages)
    /\ col_page_idx # col_fail_at
    /\ sg_ids' = AfterPage(sg_ids, col_pages[col_page_idx])
    /\ col_page_idx' = col_page_idx + 1
    /\ UNCHANGED <<col_pages, col_fail_at, col_error, col_pc>>
    /\ UNCHANGED <<scanVars, regionVars, cleanerVars>>

\* the request for the next page fails: a ClientError is caught by the
\* collector, anything else leaves it
PageFails ==
    /\ col_pc = "paging"
    /\ col_page_idx = col_fail_at
    /\ IF col_error = "ClientError"
       THEN /\ sg_ids' = OnClientError(sg_ids)
            /\ col_pc' = "returned"
       ELSE /\ col_pc' = "raised"
            /\ UNCHANGED sg_ids
    /\ UNCHANGED <<col_pages, col_fail_at, col_error, col_page_idx>>
    /\ UNCHANGED <<scanVars, regionVars, cleanerVars>>

\* the listing is exhausted: return sg_ids
CollectorReturns ==
    /\ col_pc = "paging"
    /\ col_page_idx > Len(col_pages)
    /\ col_pc' = "returned"
    /\ UNCHANGED <<col_pages, col_fail_at, col_error, col_page_idx, sg_ids>>
    /\ UNCHANGED <<scanVars, regionVars, cleanerVars>>

CollectorNext ==
    \/ ReadPage
    \/ PageFails
    \/ CollectorReturns

(***************************************************************************)
(* Region orchestrator: values                                             *)
(***************************************************************************)
RegionNames == 1..NumRegionNames

\* Python None where a string is expected
NoneStr == "<None>"

\* str(e) of the exceptions a region evaluation or a callback can raise
ExceptionMessages == {"", "connection reset"}

\* the ScanResults a region's scanner.scan() can hand back
ScanResults ==
    {r \in [total_count : 0..MaxCount, unused_count : 0..MaxCount,
            errors : {<<>>, <<ErrInUse>>}] : r.unused_count <= r.total_count}

\* Python truthiness of the `error` element of the tuple
Truthy(str) == str # NoneStr /\ str # ""

\* dict item assignment d[k] = v
Put(d, k, v) == [x \in DOMAIN d \cup {k} |-> IF x = k THEN v ELSE d[x]]

EmptyDict == [x \in {} |-> 0]

RECURSIVE SumOver(_, _, _)
SumOver(d, keys, field) ==
    IF keys = {} THEN 0
    ELSE LET k == CHOOSE x \in keys : TRUE
         IN  (IF field = "total_count" THEN d[k].total_count
              ELSE d[k].unused_count) + SumOver(d, keys \ {k}, field)

\* what _scan_region hands to its future
ReturnResult(region, result) ==
    [kind |-> "tuple", region |-> region, result |-> <<result>>,
     error |-> NoneStr]
ReturnError(region, msg) ==
    [kind |-> "tuple", region |-> region, result |-> <<>>, error |-> msg]
Escaped(region) ==
    [kind |-> "exception", region |-> region, result |-> <<>>,
     error |-> NoneStr]

\* a region whose scan has not been run (yet)
Unscanned(region) ==
    [kind |-> "unscanned", region |-> region, result |-> <<>>,
     error |-> NoneStr]

\* the body of `for future in as_completed(futures):` for one tuple
MergeFuture(acc, f) ==
    IF Truthy(f.error)
    THEN [acc EXCEPT !.errors = Put(acc.errors, f.region, <<f.error>>)]
    ELSE IF f.result # <<>>
    THEN LET result == f.result[1]
         IN  [results_by_region |->
                  Put(acc.results_by_region, f.region, result),
              total_resources |-> acc.total_resources + result.total_count,
              total_unused |-> acc.total_unused + result.unused_count,
              errors |-> IF result.errors # <<>>
                         THEN Put(acc.errors, f.region, result.errors)
                         ELSE acc.errors]
    ELSE acc

\* whether a call of the progress callback may raise
CallbackMayRaise == IF progress_callback = "raising" THEN BOOLEAN ELSE {FALSE}

\* the statuses delivered so far plus one more call (none without callback)
Notify(notes, status) ==
    IF progress_callback = "none" THEN notes ELSE Append(notes, status)

Running == {t \in DOMAIN task : task[t] = "running"}

\* RegionManager.__init__(max_workers=10)
DefaultMaxWorkers == 10

\* ThreadPoolExecutor(max_workers=self.max_workers): a queued task is taken
\* only by a worker that runs nothing else
WorkerFreeOffByOne == Cardinality(Running) <= max_workers
WorkerFree == Cardinality(Running) < max_workers

(***************************************************************************)
(* Region orchestrator: scan_regions and _scan_region                      *)
(***************************************************************************)
RegionInit ==
    /\ regions_arg \in
         [given : {TRUE}, list : SeqsUpTo(RegionNames, MaxRegions)]
         \cup {[given |-> FALSE, list |-> <<>>]}
    /\ regions = <<>>
    /\ max_workers \in (1..MaxWorkers) \cup {DefaultMaxWorkers}
    /\ progress_callback \in {"none", "quiet", "raising"}
    /\ reg_pc = "begin"
    /\ submitted = 0
    /\ task = <<>>
    /\ future = <<>>
    /\ evaluated = <<>>
    /\ yielded = <<>>
    /\ notified = <<>>
    /\ merged = {}
    /\ results_by_region = EmptyDict
    /\ errors = EmptyDict
    /\ total_resources = 0
    /\ total_unused = 0

\* get_all_regions(): sorted names of the available regions
DiscoveredLists ==
    {l \in SeqsUpTo(RegionNames, NumRegionNames) :
        \A i, j \in DOMAIN l : i < j => l[i] < l[j]}

\* scan_regions() up to the creation of the executor: region discovery,
\* result containers, the temporary scanner
BeginScanRegions ==
    /\ reg_pc = "begin"
    /\ \E fails \in BOOLEAN, found \in DiscoveredLists :
         LET list == IF regions_arg.given THEN regions_arg.list ELSE found
         IN  /\ (regions_arg.given => found = <<>>)
             /\ IF fails
                THEN /\ reg_pc' = "raised"
                     /\ UNCHANGED <<regions, task, future, evaluated,
                                    yielded, notified>>
                ELSE /\ reg_pc' = "pool"
                     /\ regions' = list
                     /\ task' = [t \in DOMAIN list |-> "queued"]
                     /\ future' = [t \in DOMAIN list |-> Escaped(list[t])]
                     /\ evaluated' = [t \in DOMAIN list |-> "no"]
                     /\ yielded' = [t \in DOMAIN list |-> Unscanned(list[t])]
                     /\ notified' = [t \in DOMAIN list |-> <<>>]
    /\ UNCHANGED <<regions_arg, max_workers, progress_callback, submitted,
                   merged, results_by_region, errors, total_resources,
                   total_unused>>
    /\ UNCHANGED <<scanVars, cleanerVars, collectorVars>>

\* executor.submit(self._scan_region, region, ...) for the next list entry
Submit ==
    /\ reg_pc = "pool"
    /\ submitted < Len(regions)
    /\ submitted' = submitted + 1
    /\ UNCHANGED <<regions_arg, regions, max_workers, progress_callback,
                   reg_pc, task, future, evaluated, yielded, notified,
                   merged, results_by_region, errors, total_resources,
                   total_unused>>
    /\ UNCHANGED <<scanVars, cleanerVars, collectorVars>>

\* _scan_region(): the `except Exception as e:` handler
ExceptHandler(t, msg, notes) ==
    \E cbraise \in CallbackMayRaise :
        /\ notified' = [notified EXCEPT ![t] = Notify(notes, "error")]
        /\ future' = [future EXCEPT ![t] =
                         IF cbraise THEN Escaped(regions[t])
                         ELSE ReturnError(regions[t], msg)]

\* a free worker takes the oldest queued task: _scan_region() up to the
\* point where the region is being scanned
StartTask(t) ==
    /\ reg_pc \in {"pool", "unwinding"}
    /\ t \in DOMAIN task
    /\ t <= submitted
    /\ task[t] = "queued"
    /\ \A u \in DOMAIN task : u < t => task[u] # "queued"
    /\ WorkerFree
    /\ \E cbraise \in CallbackMayRaise :
         IF cbraise
         THEN \E msg \in ExceptionMessages :
                /\ task' = [task EXCEPT ![t] = "done"]
                /\ evaluated' = [evaluated EXCEPT ![t] = "threw"]
                /\ ExceptHandler(t, msg, Notify(notified[t], "scanning"))
         ELSE /\ task' = [task EXCEPT ![t] = "running"]
              /\ notified' = [notified EXCEPT ![t] = Notify(@, "scanning")]
              /\ UNCHANGED <<future, evaluated>>
    /\ UNCHANGED <<regions_arg, regions, max_workers, progress_callback,
                   reg_pc, submitted, yielded, merged, results_by_region, errors,
                   total_resources, total_unused>>
    /\ UNCHANGED <<scanVars, cleanerVars, collectorVars>>

\* _scan_region(): the scan of the region ends (client, scanner, scan()),
\* the callback is told, the tuple is returned
FinishTask(t) ==
    /\ t \in DOMAIN task
    /\ task[t] = "running"
    /\ task' = [task EXCEPT ![t] = "done"]
    /\ \/ \E result \in ScanResults, cbraise \in CallbackMayRaise :
            /\ yielded' = [yielded EXCEPT ![t] =
                               ReturnResult(regions[t], result)]
            /\ IF cbraise
               THEN \E msg \in ExceptionMessages :
                      /\ evaluated' = [evaluated EXCEPT ![t] = "threw"]
                      /\ ExceptHandler(t, msg,
                                       Notify(notified[t], "complete"))
               ELSE /\ evaluated' = [evaluated EXCEPT ![t] = "result"]
                    /\ notified' =
                         [notified EXCEPT ![t] = Notify(@, "complete")]
                    /\ future' = [future EXCEPT ![t] =
                                     ReturnResult(regions[t], result)]
       \/ \E msg \in ExceptionMessages :
            /\ yielded' = [yielded EXCEPT ![t] = ReturnError(regions[t], msg)]
            /\ evaluated' = [evaluated EXCEPT ![t] = "threw"]
            /\ ExceptHandler(t, msg, notified[t])
    /\ UNCHANGED <<regions_arg, regions, max_workers, progress_callback,
                   reg_pc, submitted, merged, results_by_region, errors,
                   total_resources, total_unused>>
    /\ UNCHANGED <<scanVars, cleanerVars, collectorVars>>

\* one iteration of `for future in as_completed(futures):`
Merge(t) ==
    /\ reg_pc = "pool"
    /\ submitted = Len(regions)
    /\ t \in DOMAIN task
    /\ task[t] = "done"
    /\ t \notin merged
    /\ merged' = merged \cup {t}
    /\ IF future[t].kind = "exception"
       THEN /\ reg_pc' = "unwinding"
            /\ UNCHANGED <<results_by_region, errors, total_resources,
                           total_unused>>
       ELSE LET acc == MergeFuture(
                    [results_by_region |-> results_by_region,
                     errors |-> errors,
                     total_resources |-> total_resources,
                     total_unused |-> total_unused], future[t])
            IN  /\ results_by_region' = acc.results_by_region
                /\ errors' = acc.errors
                /\ total_resources' = acc.total_resources
                /\ total_unused' = acc.total_unused
                /\ UNCHANGED reg_pc
    /\ UNCHANGED <<regions_arg, regions, max_workers, progress_callback,
                   submitted, task, future, evaluated, yielded, notified>>
    /\ UNCHANGED <<scanVars, cleanerVars, collectorVars>>

\* every future was merged: the executor is left and the
\* MultiRegionScanResult returned
ReturnScanRegions ==
    /\ reg_pc = "pool"
    /\ submitted = Len(regions)
    /\ merged = DOMAIN task
    /\ reg_pc' = "returned"
    /\ UNCHANGED <<regions_arg, regions, max_workers, progress_callback,
                   submitted, task, future, evaluated, yielded, notified,
                   merged, results_by_region, errors, total_resources,
                   total_unused>>
    /\ UNCHANGED <<scanVars, cleanerVars, collectorVars>>

\* future.result() re-raised: the executor waits for its tasks on exit,
\* then the exception leaves scan_regions()
RaiseScanRegions ==
    /\ reg_pc = "unwinding"
    /\ \A t \in DOMAIN task : task[t] = "done"
    /\ reg_pc' = "raised"
    /\ UNCHANGED <<regions_arg, regions, max_workers, progress_callback,
                   submitted, task, future, evaluated, yielded, notified,
                   merged, results_by_region, errors, total_resources,
                   total_unused>>
    /\ UNCHANGED <<scanVars, cleanerVars, collectorVars>>

RegionNext ==
    \/ BeginScanRegions
    \/ Submit
    \/ \E t \in DOMAIN task : StartTask(t)
    \/ \E t \in DOMAIN task : FinishTask(t)
    \/ \E t \in DOMAIN task : Merge(t)
    \/ ReturnScanRegions
    \/ RaiseScanRegions

(***************************************************************************)
(* Cleaner: values                                                         *)
(***************************************************************************)
\* DeleteStatus
SUCCESS == "success"
FAILED == "failed"
SKIPPED == "skipped"
DRY_RUN == "dry_run"
DeleteStatus == {SUCCESS, FAILED, SKIPPED, DRY_RUN}

\* SecurityGroupCleaner.ERROR_MESSAGES
ERROR_MESSAGES ==
    [code \in {"DependencyViolation", "InvalidGroup.NotFound",
               "InvalidGroup.InUse", "UnauthorizedOperation",
               "InvalidPermission.NotFound", "CannotDelete"} |->
        CASE code = "DependencyViolation" ->
               "Security group is still in use by another resource. Detach it from all resources before deletion."
          [] code = "InvalidGroup.NotFound" ->
               "Security group no longer exists. It may have been deleted."
          [] code = "InvalidGroup.InUse" ->
               "Security group is referenced by another security group's rules. Remove the references before deletion."
          [] code = "UnauthorizedOperation" ->
               "Insufficient permissions to delete this security group. Check your IAM policies."
          [] code = "InvalidPermission.NotFound" ->
               "Security group rule not found. The rule may have been modified."
          [] code = "CannotDelete" ->
               "Security group cannot be deleted. This may be a default VPC security group which cannot be removed."]

\* str(e) of the ServiceError raised when the EC2 client cannot be created
ClientCreationMessage == "Failed to create ec2 client"

\* how the remote delete_security_group call can end
RemoteOutcomes ==
    {[kind |-> "ok", code |-> NoneStr, message |-> NoneStr]}
    \cup {[kind |-> "client_error", code |-> c,
           message |-> "Request limit exceeded."] :
             c \in {"DependencyViolation", "RequestLimitExceeded"}}
    \cup {[kind |-> "exception", code |-> NoneStr, message |-> m] :
             m \in ExceptionMessages}

\* the security group dicts the scanner produces (is_default is derived
\* from the group name); id 0 is a dict without a usable id
SgNames == {"default", "web"}
SgItems ==
    {[id |-> i, name |-> n, is_default |-> (n = "default")] :
        i \in IdsOrNone, n \in SgNames}

DeleteResultDropsMessage(sg_id, sg_name, status, error_message) ==
    [sg_id |-> sg_id, sg_name |-> sg_name, status |-> status,
     error_message |-> NoneStr]
DeleteResult(sg_id, sg_name, status, error_message) ==
    [sg_id |-> sg_id, sg_name |-> sg_name, status |-> status,
     error_message |-> error_message]

\* DeleteSummary()
EmptySummary ==
    [total |-> 0, deleted |-> 0, failed |-> 0, skipped |-> 0, dry_run |-> 0,
     results |-> <<>>, end_time |-> "None"]

\* DeleteSummary.add_result
add_resultSkippedUncounted(s, result) ==
    LET t == [s EXCEPT !.results = Append(@, result), !.total = @ + 1]
    IN  IF result.status = SUCCESS THEN [t EXCEPT !.deleted = @ + 1]
        ELSE IF result.status = FAILED THEN [t EXCEPT !.failed = @ + 1]
        ELSE IF result.status = DRY_RUN THEN [t EXCEPT !.dry_run = @ + 1]
        ELSE t
add_result(s, result) ==
    LET t == [s EXCEPT !.results = Append(@, result), !.total = @ + 1]
    IN  IF result.status = SUCCESS THEN [t EXCEPT !.deleted = @ + 1]
        ELSE IF result.status = FAILED THEN [t EXCEPT !.failed = @ + 1]
        ELSE IF result.status = SKIPPED THEN [t EXCEPT !.skipped = @ + 1]
        ELSE IF result.status = DRY_RUN THEN [t EXCEPT !.dry_run = @ + 1]
        ELSE t

\* DeleteSummary.complete
complete(s) == [s EXCEPT !.end_time = "set"]

\* the ClientError branch: ERROR_MESSAGES.get(error_code, raw message)
TranslateErrorAlwaysRaw(code, message) == message
TranslateError(code, message) ==
    IF code \in DOMAIN ERROR_MESSAGES THEN ERROR_MESSAGES[code] ELSE message

\* SecurityGroupCleaner.delete_security_group: the DeleteResult, the remote
\* call issued (if any), whether the client handle was created, and whether
\* an exception leaves the method.  have_client says whether self.ec2_client
\* yields a client, outcome how the remote call ends.
delete_security_groupIgnoresDryRun(sg_id, sg_name, dry_run, have_client, outcome) ==
    IF ~have_client
    THEN [result |-> DeleteResult(sg_id, sg_name, FAILED, ClientCreationMessage),
          calls |-> <<>>, raises |-> FALSE]
    ELSE LET call == <<[sg_id |-> sg_id, kind |-> outcome.kind,
                       code |-> outcome.code, message |-> outcome.message]>>
         IN  [result |-> DeleteResult(sg_id, sg_name,
                             IF dry_run THEN DRY_RUN ELSE SUCCESS, NoneStr),
              calls |-> call, raises |-> FALSE]
delete_security_groupReraises(sg_id, sg_name, dry_run, have_client, outcome) ==
    IF dry_run
    THEN [result |-> DeleteResult(sg_id, sg_name, DRY_RUN, NoneStr),
          calls |-> <<>>, raises |-> FALSE]
    ELSE IF ~have_client
    THEN [result |-> DeleteResult(sg_id, sg_name, FAILED, ClientCreationMessage),
          calls |-> <<>>, raises |-> FALSE]
    ELSE LET call == <<[sg_id |-> sg_id, kind |-> outcome.kind,
                       code |-> outcome.code, message |-> outcome.message]>>
         IN  IF outcome.kind = "ok"
             THEN [result |-> DeleteResult(sg_id, sg_name, SUCCESS, NoneStr),
                   calls |-> call, raises |-> FALSE]
             ELSE IF outcome.kind = "client_error"
             THEN [result |-> DeleteResult(sg_id, sg_name, FAILED,
                                  TranslateError(outcome.code, outcome.message)),
                   calls |-> call, raises |-> FALSE]
             ELSE [result |-> DeleteResult(sg_id, sg_name, FAILED,
                                  outcome.message),
                   calls |-> call, raises |-> TRUE]
delete_security_groupAlwaysDryRun(sg_id, sg_name, dry_run, have_client, outcome) ==
    [result |-> DeleteResult(sg_id, sg_name, DRY_RUN, NoneStr),
     calls |-> <<>>, raises |-> FALSE]
delete_security_group(sg_id, sg_name, dry_run, have_client, outcome) ==
    IF dry_run
    THEN [result |-> DeleteResult(sg_id, sg_name, DRY_RUN, NoneStr),
          calls |-> <<>>, raises |-> FALSE]
    ELSE IF ~have_client
    THEN [result |-> DeleteResult(sg_id, sg_name, FAILED, ClientCreationMessage),
          calls |-> <<>>, raises |-> FALSE]
    ELSE LET call == <<[sg_id |-> sg_id, kind |-> outcome.kind,
                       code |-> outcome.code, message |-> outcome.message]>>
         IN  IF outcome.kind = "ok"
             THEN [result |-> DeleteResult(sg_id, sg_name, SUCCESS, NoneStr),
                   calls |-> call, raises |-> FALSE]
             ELSE IF outcome.kind = "client_error"
             THEN [result |-> DeleteResult(sg_id, sg_name, FAILED,
                                  TranslateError(outcome.code, outcome.message)),
                   calls |-> call, raises |-> FALSE]
             ELSE [result |-> DeleteResult(sg_id, sg_name, FAILED,
                                  outcome.message),
                   calls |-> call, raises |-> FALSE]

\* the default of the dry_run parameter of each method
DefaultDryRun(method) ==
    CASE method = "delete_security_group"    -> TRUE
      [] method = "delete_batch"             -> TRUE
      [] method = "delete_with_confirmation" -> FALSE

\* the dry_run value the running method works with
DryRun ==
    IF dry_run_arg = "omitted" THEN DefaultDryRun(op)
    ELSE dry_run_arg = "True"

\* whether the lazy ec2_client property may fail to produce a client: only
\* the first creation can fail, a cached client is handed back as is
ClientChoices == IF ec2_client = "client" THEN {TRUE} ELSE BOOLEAN

\* a remote call, marked with the position of the item it was issued for
ForItem(calls, i) ==
    [k \in DOMAIN calls |->
        [sg_id |-> calls[k].sg_id, kind |-> calls[k].kind,
         code |-> calls[k].code, message |-> calls[k].message, item |-> i]]

(***************************************************************************)
(* Cleaner: operations                                                     *)
(***************************************************************************)
CleanerInit ==
    /\ op \in {"delete_security_group", "delete_batch",
               "delete_with_confirmation"}
    /\ items \in SeqsUpTo(SgItems, MaxItems)
    /\ (op = "delete_security_group" => Len(items) = 1)
    /\ dry_run_arg \in {"omitted", "True", "False"}
    /\ cl_progress \in {"none", "quiet", "raising"}
    /\ (op = "delete_security_group" => cl_progress = "none")
    /\ cl_pc = "start"
    /\ item_idx = 1
    /\ summary = EmptySummary
    /\ returned = <<>>
    /\ ec2_client = "None"
    /\ remote_calls = <<>>
    /\ confirmations = <<>>
    /\ progress_seen = <<>>

\* a direct call of delete_security_group(sg_id, sg_name, dry_run)
DeleteSecurityGroupCall(outcomes) ==
    /\ op = "delete_security_group"
    /\ cl_pc = "start"
    /\ \E have_client \in ClientChoices, outcome \in outcomes :
         LET d == delete_security_group(items[1].id, items[1].name, DryRun,
                                        have_client, outcome)
         IN  /\ returned' = IF d.raises THEN <<>> ELSE <<d.result>>
             /\ cl_pc' = IF d.raises THEN "raised" ELSE "done"
             /\ remote_calls' = remote_calls \o ForItem(d.calls, 1)
             /\ ec2_client' = IF ~DryRun /\ have_client THEN "client"
                              ELSE ec2_client
    /\ UNCHANGED <<op, items, dry_run_arg, cl_progress, item_idx, summary,
                   confirmations, progress_seen>>
    /\ UNCHANGED <<scanVars, regionVars, collectorVars>>

CallDeleteSecurityGroup == DeleteSecurityGroupCall(RemoteOutcomes)

\* delete_batch / delete_with_confirmation up to the loop: DeleteSummary()
BeginBatch ==
    /\ op \in {"delete_batch", "delete_with_confirmation"}
    /\ cl_pc = "start"
    /\ summary' = EmptySummary
    /\ cl_pc' = "loop"
    /\ UNCHANGED <<op, items, dry_run_arg, cl_progress, item_idx, returned,
                   ec2_client, remote_calls, confirmations, progress_seen>>
    /\ UNCHANGED <<scanVars, regionVars, collectorVars>>

\* whether a call of the cleaner's progress callback raises
ProgressMayRaise == IF cl_progress = "raising" THEN BOOLEAN ELSE {FALSE}

\* where the loop body stands after progress_callback(result): the
\* `except Exception` around the call logs a warning and the loop goes on
AfterProgressCallbackPropagates(cbraised) ==
    IF cbraised THEN "raised" ELSE "loop"
AfterProgressCallback(cbraised) == "loop"

\* what progress_callback was handed: the result, how many results the
\* summary held at that moment, and whether the callback raised
ProgressCall(result, position, cbraised) ==
    [result |-> result, position |-> position, raised |-> cbraised]

\* the tail of both loop bodies: summary.add_result(result), then the
\* progress callback inside its try/except
RecordResultStopsOnFailure(d) ==
    /\ summary' = IF d.raises THEN summary ELSE add_result(summary, d.result)
    /\ remote_calls' = remote_calls \o ForItem(d.calls, item_idx)
    /\ \E cbraised \in ProgressMayRaise :
         /\ cl_pc' = IF d.raises THEN "raised"
                     ELSE IF cl_progress = "none" THEN "loop"
                     ELSE AfterProgressCallback(cbraised)
         /\ progress_seen' =
              IF d.raises \/ cl_progress = "none"
              THEN progress_seen
              ELSE Append(progress_seen,
                          ProgressCall(d.result, Len(summary.results) + 1,
                                       cbraised))
    /\ item_idx' = IF d.result.status = FAILED THEN Len(items) + 1
                   ELSE item_idx + 1
RecordResult(d) ==
    /\ summary' = IF d.raises THEN summary ELSE add_result(summary, d.result)
    /\ remote_calls' = remote_calls \o ForItem(d.calls, item_idx)
    /\ \E cbraised \in ProgressMayRaise :
         /\ cl_pc' = IF d.raises THEN "raised"
                     ELSE IF cl_progress = "none" THEN "loop"
                     ELSE AfterProgressCallback(cbraised)
         /\ progress_seen' =
              IF d.raises \/ cl_progress = "none"
              THEN progress_seen
              ELSE Append(progress_seen,
                          ProgressCall(d.result, Len(summary.results) + 1,
                                       cbraised))
    /\ item_idx' = item_idx + 1

\* one iteration of the loop of delete_batch
DeleteBatchItem ==
    /\ op = "delete_batch"
    /\ cl_pc = "loop"
    /\ item_idx <= Len(items)
    /\ \E have_client \in ClientChoices, outcome \in RemoteOutcomes :
         LET sg == items[item_idx]
             d == delete_security_group(sg.id, sg.name, DryRun, have_client,
                                        outcome)
         IN  /\ RecordResult(d)
             /\ ec2_client' = IF ~DryRun /\ have_client THEN "client"
                              ELSE ec2_client
    /\ UNCHANGED <<op, items, dry_run_arg, cl_progress, returned,
                   confirmations>>
    /\ UNCHANGED <<scanVars, regionVars, collectorVars>>

\* what confirm_callback does when asked about an item
ConfirmAnswers == {"True", "False", "raises"}

\* the value of `confirmed` after the try/except around confirm_callback(sg):
\* the callback's answer, False when it raised
ConfirmedUnlessRefused(answer) == answer # "False"
Confirmed(answer) == answer = "True"

\* one iteration of the loop of delete_with_confirmation
DeleteWithConfirmationItem ==
    /\ op = "delete_with_confirmation"
    /\ cl_pc = "loop"
    /\ item_idx <= Len(items)
    /\ \E answer \in ConfirmAnswers,
          have_client \in ClientChoices, outcome \in RemoteOutcomes :
         LET sg == items[item_idx]
             confirmed == Confirmed(answer)
             d == IF ~confirmed
                  THEN [result |-> DeleteResult(sg.id, sg.name, SKIPPED, NoneStr),
                        calls |-> <<>>, raises |-> FALSE]
                  ELSE delete_security_group(sg.id, sg.name, DryRun,
                                             have_client, outcome)
         IN  /\ (~confirmed =>
                    /\ have_client
                    /\ outcome.kind = "ok")
             /\ confirmations' = Append(confirmations, answer)
             /\ RecordResult(d)
             /\ ec2_client' = IF confirmed /\ ~DryRun /\ have_client
                              THEN "client" ELSE ec2_client
    /\ UNCHANGED <<op, items, dry_run_arg, cl_progress, returned>>
    /\ UNCHANGED <<scanVars, regionVars, collectorVars>>

\* after the loop: summary.complete() and return
CompleteBatch ==
    /\ op \in {"delete_batch", "delete_with_confirmation"}
    /\ cl_pc = "loop"
    /\ item_idx > Len(items)
    /\ summary' = complete(summary)
    /\ cl_pc' = "done"
    /\ UNCHANGED <<op, items, dry_run_arg, cl_progress, item_idx, returned,
                   ec2_client, remote_calls, confirmations, progress_seen>>
    /\ UNCHANGED <<scanVars, regionVars, collectorVars>>

CleanerNext ==
    \/ CallDeleteSecurityGroup
    \/ BeginBatch
    \/ DeleteBatchItem
    \/ DeleteWithConfirmationItem
    \/ CompleteBatch

(***************************************************************************)
(* DeleteSummary on its own: add_result called by any caller               *)
(***************************************************************************)
DeleteResults ==
    {DeleteResult(i, n, st, IF st = FAILED THEN ClientCreationMessage ELSE NoneStr) :
        i \in IdsOrNone, n \in SgNames, st \in DeleteStatus}

SummaryInit ==
    /\ op = "add_result"
    /\ items = <<>>
    /\ dry_run_arg = "omitted"
    /\ cl_progress = "none"
    /\ cl_pc = "start"
    /\ item_idx = 1
    /\ summary = EmptySummary
    /\ returned = <<>>
    /\ ec2_client = "None"
    /\ remote_calls = <<>>
    /\ confirmations = <<>>
    /\ progress_seen = <<>>

\* summary.add_result(result) for any DeleteResult
AddResult ==
    /\ op = "add_result"
    /\ Len(summary.results) < MaxResults
    /\ \E result \in DeleteResults : summary' = add_result(summary, result)
    /\ UNCHANGED <<op, items, dry_run_arg, cl_progress, cl_pc, item_idx,
                   returned, ec2_client, remote_calls, confirmations,
                   progress_seen>>
    /\ UNCHANGED <<scanVars, regionVars, collectorVars>>

SummaryNext == AddResult

(***************************************************************************)
(* delete_security_group when the remote call is rejected with a           *)
(* ClientError: every error code the translation table knows, and others   *)
(***************************************************************************)
\* e.response["Error"]["Message"] of a rejected call
RemoteMessages == {"Request limit exceeded.", "resource has a dependent object"}

\* e.response["Error"]["Code"]: the codes of ERROR_MESSAGES and codes it
\* does not list
RemoteCodes == DOMAIN ERROR_MESSAGES \cup {"RequestLimitExceeded", "Unknown"}

ClientErrors ==
    {[kind |-> "client_error", code |-> c, message |-> m] :
        c \in RemoteCodes, m \in RemoteMessages}

RejectedInit ==
    /\ op = "delete_security_group"
    /\ items \in {<<sg>> : sg \in SgItems}
    /\ dry_run_arg = "False"
    /\ cl_progress = "none"
    /\ cl_pc = "start"
    /\ item_idx = 1
    /\ summary = EmptySummary
    /\ returned = <<>>
    /\ ec2_client = "None"
    /\ remote_calls = <<>>
    /\ confirmations = <<>>
    /\ progress_seen = <<>>

\* delete_security_group(sg_id, sg_name, dry_run=False) whose remote call,
\* if it is issued, raises a ClientError
CallRejected == DeleteSecurityGroupCall(ClientErrors)

RejectedNext == CallRejected

(***************************************************************************)
(* SecurityGroupCleaner.can_delete on its own                              *)
(***************************************************************************)
\* dict.get(key, default)
Get(dict, key, default) == IF key \in DOMAIN dict THEN dict[key] ELSE default

\* SecurityGroupCleaner.can_delete: the (can_delete, reason) tuple
can_deleteNameOnly(sg) ==
    IF Get(sg, "name", NoneStr) = "default"
    THEN [ok |-> FALSE, reason |-> "Default security groups cannot be deleted"]
    ELSE [ok |-> TRUE, reason |-> ""]
can_delete(sg) ==
    IF Get(sg, "is_default", FALSE) \/ Get(sg, "name", NoneStr) = "default"
    THEN [ok |-> FALSE, reason |-> "Default security groups cannot be deleted"]
    ELSE [ok |-> TRUE, reason |-> ""]

\* the dicts can_delete is asked about: any of the keys may be absent, and
\* is_default need not agree with the name
GuardNames == {"default", "Default", "default-web", "web", ""}
GuardKeySets == {{"id"} \cup k : k \in SUBSET {"name", "is_default"}}
GuardItems ==
    {[k \in keys |->
        CASE k = "id"         -> i
          [] k = "name"       -> n
          [] k = "is_default" -> d] :
        keys \in GuardKeySets, i \in IdsOrNone, n \in GuardNames,
        d \in BOOLEAN}

CanDeleteInit ==
    /\ op = "can_delete"
    /\ items \in {<<sg>> : sg \in GuardItems}
    /\ dry_run_arg = "omitted"
    /\ cl_progress = "none"
    /\ cl_pc = "start"
    /\ item_idx = 1
    /\ summary = EmptySummary
    /\ returned = <<>>
    /\ ec2_client = "None"
    /\ remote_calls = <<>>
    /\ confirmations = <<>>
    /\ progress_seen = <<>>

\* SecurityGroupCleaner.can_delete(sg)
CallCanDelete ==
    /\ op = "can_delete"
    /\ cl_pc = "start"
    /\ returned' = <<can_delete(items[1])>>
    /\ cl_pc' = "done"
    /\ UNCHANGED <<op, items, dry_run_arg, cl_progress, item_idx, summary,
                   ec2_client, remote_calls, confirmations, progress_seen>>
    /\ UNCHANGED <<scanVars, regionVars, collectorVars>>

CanDeleteNext == CallCanDelete

(***************************************************************************)
(* Specifications                                                          *)
(***************************************************************************)
ScanIdle ==
    /\ resource_type = "security_group"
    /\ exclude_default = TRUE
    /\ inventory = <<>>
    /\ scan_pc = "idle"
    /\ all_resources = <<>>
    /\ total_count = 0
    /\ scan_errors = <<>>
    /\ fetch_status = "pending"
    /\ source_idx = 1
    /\ used_sgs = {}
    /\ used_ids = {}
    /\ unused_resources = <<>>
    /\ in_use_status = "pending"
    /\ returned_union = {}
    /\ n_raised = 0
    /\ default_ids = {}

RegionIdle ==
    /\ regions_arg = [given |-> TRUE, list |-> <<>>]
    /\ regions = <<>>
    /\ max_workers = 1
    /\ progress_callback = "none"
    /\ reg_pc = "idle"
    /\ submitted = 0
    /\ task = <<>>
    /\ future = <<>>
    /\ evaluated = <<>>
    /\ yielded = <<>>
    /\ notified = <<>>
    /\ merged = {}
    /\ results_by_region = EmptyDict
    /\ errors = EmptyDict
    /\ total_resources = 0
    /\ total_unused = 0

CleanerIdle ==
    /\ op = "idle"
    /\ items = <<>>
    /\ dry_run_arg = "omitted"
    /\ cl_progress = "none"
    /\ cl_pc = "idle"
    /\ item_idx = 1
    /\ summary = EmptySummary
    /\ returned = <<>>
    /\ ec2_client = "None"
    /\ remote_calls = <<>>
    /\ confirmations = <<>>
    /\ progress_seen = <<>>

CollectorIdle ==
    /\ col_pages = <<>>
    /\ col_fail_at = 0
    /\ col_error = "none"
    /\ col_pc = "idle"
    /\ col_page_idx = 1
    /\ sg_ids = {}

ScanSpecInit == ScanInit /\ RegionIdle /\ CleanerIdle /\ CollectorIdle

RegionSpecInit == RegionInit /\ ScanIdle /\ CleanerIdle /\ CollectorIdle

CleanerSpecInit == CleanerInit /\ ScanIdle /\ RegionIdle /\ CollectorIdle

SummarySpecInit == SummaryInit /\ ScanIdle /\ RegionIdle /\ CollectorIdle

CanDeleteSpecInit == CanDeleteInit /\ ScanIdle /\ RegionIdle /\ CollectorIdle

EipSpecInit == EipInit /\ RegionIdle /\ CleanerIdle /\ CollectorIdle

RejectedSpecInit == RejectedInit /\ ScanIdle /\ RegionIdle /\ CollectorIdle

CollectorSpecInit == CollectorInit /\ ScanIdle /\ RegionIdle /\ CleanerIdle

ScanSpec == ScanSpecInit /\ [][ScanNext]_vars

RegionSpec == RegionSpecInit /\ [][RegionNext]_vars

CleanerSpec == CleanerSpecInit /\ [][CleanerNext]_vars

SummarySpec == SummarySpecInit /\ [][SummaryNext]_vars

CanDeleteSpec == CanDeleteSpecInit /\ [][CanDeleteNext]_vars

EipSpec == EipSpecInit /\ [][EipNext]_vars

RejectedSpec == RejectedSpecInit /\ [][RejectedNext]_vars

CollectorSpec == CollectorSpecInit /\ [][CollectorNext]_vars

\* the worker pool and the thread of scan_regions keep running: a step that
\* stays possible is eventually taken
RegionFairness ==
    /\ WF_vars(BeginScanRegions)
    /\ WF_vars(Submit)
    /\ WF_vars(\E t \in DOMAIN task : StartTask(t))
    /\ WF_vars(\E t \in DOMAIN task : FinishTask(t))
    /\ WF_vars(\E t \in DOMAIN task : Merge(t))
    /\ WF_vars(ReturnScanRegions)
    /\ WF_vars(RaiseScanRegions)

RegionFairSpec == RegionSpecInit /\ [][RegionNext]_vars /\ RegionFairness

(***************************************************************************)
(* Scanner claims                                                          *)
(***************************************************************************)
\* the set get_resources_in_use() is specified to return: the outputs of the
\* sources that returned, plus the default ids when exclude_default is set
ExpectedUsed ==
    returned_union \cup (IF exclude_default THEN default_ids ELSE {})

\* C1: every record of ScanResult.unused_resources is a record of the fetched
\* inventory, and its id is not in the used-id set of that run (so a resource
\* reported by a source of a returning get_resources_in_use() is never unused)
C1_UnusedWithinInventoryAndNotUsed ==
    scan_pc = "done" =>
        \A i \in DOMAIN unused_resources :
            /\ unused_resources[i] \in Range(inventory)
            /\ unused_resources[i].id \notin used_ids
            /\ (in_use_status = "returned" =>
                    unused_resources[i].id \notin ExpectedUsed)

\* a finished scan that kept one record and dropped another one as used
C1_Witness ==
    /\ scan_pc = "done"
    /\ in_use_status = "returned"
    /\ Len(unused_resources) = 1
    /\ Len(all_resources) = 2
    /\ \E i \in DOMAIN all_resources : all_resources[i].id \in returned_union

\* C2: with exclude_default = True no record with is_default = True is ever
\* in the unused_resources of scan()
C2_NoDefaultReportedUnused ==
    (scan_pc = "done" /\ exclude_default) =>
        \A i \in DOMAIN unused_resources : ~unused_resources[i].is_default

\* C3: when exactly one listed source raises, get_resources_in_use() still
\* returns (no exception escapes it), and what it returns is the union of the
\* outputs of the other sources, plus the default ids when exclude_default is
\* set
C3_OneSourceFailureIsolated ==
    (scan_pc \in {"compute", "done"} /\ n_raised = 1) =>
        /\ in_use_status = "returned"
        /\ used_ids = ExpectedUsed

\* C4: when get_resources_in_use() raises after sources contributed ids,
\* scan() records an error and still excludes every contributed id
C4_AccumulatedEvidenceKept ==
    (scan_pc = "done" /\ in_use_status = "raised") =>
        /\ ErrInUse \in Range(scan_errors)
        /\ \A i \in DOMAIN unused_resources :
               unused_resources[i].id \notin returned_union

(***************************************************************************)
(* Region orchestrator claims                                              *)
(***************************************************************************)
\* list entries whose evaluation (the try body of _scan_region) threw
Threw == {t \in DOMAIN evaluated : evaluated[t] = "threw"}

RECURSIVE SumUnusedOfTasks(_)
SumUnusedOfTasks(ts) ==
    IF ts = {} THEN 0
    ELSE LET t == CHOOSE x \in ts : TRUE
         IN  future[t].result[1].unused_count + SumUnusedOfTasks(ts \ {t})

\* C5: when the evaluation of exactly one region throws, the returned
\* MultiRegionScanResult holds the ScanResult of every other region, an error
\* entry for the failing region, and total_unused sums the succeeding regions
C5_OneRegionFailureIsolated ==
    (reg_pc = "returned" /\ Cardinality(Threw) = 1) =>
        /\ \A t \in DOMAIN regions \ Threw :
              /\ regions[t] \in DOMAIN results_by_region
              /\ results_by_region[regions[t]] = future[t].result[1]
        /\ \A t \in Threw : regions[t] \in DOMAIN errors
        /\ total_unused = SumUnusedOfTasks(DOMAIN regions \ Threw)

\* C6: after scan_regions returns every attempted region has a ScanResult in
\* results_by_region or an error recorded in errors
C6_EveryRegionAccountedFor ==
    reg_pc = "returned" =>
        \A t \in DOMAIN regions :
            \/ regions[t] \in DOMAIN results_by_region
            \/ regions[t] \in DOMAIN errors

\* C7: the returned totals are the sums of total_count and unused_count over
\* exactly the ScanResults present in results_by_region
C7_TotalsMatchResults ==
    reg_pc = "returned" =>
        /\ total_resources =
             SumOver(results_by_region, DOMAIN results_by_region, "total_count")
        /\ total_unused =
             SumOver(results_by_region, DOMAIN results_by_region, "unused_count")

(***************************************************************************)
(* Cleaner claims                                                          *)
(***************************************************************************)
\* C8: delete_batch with dry_run=True never issues a remote
\* delete_security_group call, and the summary it returns holds exactly one
\* DRY_RUN result per input item, in input order: results[i].sg_id is the id
\* of items[i].
C8_DryRunBatchIssuesNoCall ==
    (op = "delete_batch" /\ DryRun) =>
        /\ remote_calls = <<>>
        /\ cl_pc # "raised"
        /\ (cl_pc = "done" =>
              /\ Len(summary.results) = Len(items)
              /\ \A i \in 1..Len(items) :
                   /\ summary.results[i].status = DRY_RUN
                   /\ summary.results[i].sg_id = items[i].id)

C8_Witness ==
    /\ op = "delete_batch"
    /\ dry_run_arg = "True"
    /\ cl_pc = "done"
    /\ Len(items) >= 2
    /\ items[1].id # items[2].id
    /\ Len(summary.results) = Len(items)

\* C9: after any sequence of add_result calls on a DeleteSummary that
\* started empty, total = deleted + failed + skipped + dry_run and
\* total = len(results).
C9_SummaryCountsAddUp ==
    op = "add_result" =>
        /\ summary.total = summary.deleted + summary.failed
                           + summary.skipped + summary.dry_run
        /\ summary.total = Len(summary.results)

C9_Witness ==
    /\ op = "add_result"
    /\ Len(summary.results) >= 2
    /\ summary.results[1].status = SKIPPED
    /\ summary.results[2].status = FAILED

\* C10 as stated: delete_security_group with dry_run=False issues exactly
\* one remote delete call for the given id and never raises; success of the
\* call yields SUCCESS and any exception thrown by the call yields FAILED.
C10_ExactlyOneRemoteCall ==
    (op = "delete_security_group" /\ ~DryRun /\ cl_pc \notin {"start"}) =>
        /\ cl_pc = "done"
        /\ Len(remote_calls) = 1
        /\ remote_calls[1].sg_id = items[1].id
        /\ returned[1].status =
             (IF remote_calls[1].kind = "ok" THEN SUCCESS ELSE FAILED)

\* C10 as the code has it: delete_security_group with dry_run=False never
\* raises and issues at most one remote delete call, for the given id:
\* exactly one when the EC2 client is obtained, none when creating the lazily
\* built client fails.  Success of the call yields SUCCESS; an exception
\* thrown by the call or by creating the client yields FAILED.
C10_AtMostOneRemoteCall ==
    (op = "delete_security_group" /\ ~DryRun /\ cl_pc \notin {"start"}) =>
        /\ cl_pc = "done"
        /\ Len(returned) = 1
        /\ returned[1].sg_id = items[1].id
        /\ Len(remote_calls) <= 1
        /\ (Len(remote_calls) = 1 <=> ec2_client = "client")
        /\ (Len(remote_calls) = 1 =>
              /\ remote_calls[1].sg_id = items[1].id
              /\ returned[1].status =
                   (IF remote_calls[1].kind = "ok" THEN SUCCESS ELSE FAILED))
        /\ (Len(remote_calls) = 0 => returned[1].status = FAILED)

C10_Witness ==
    /\ op = "delete_security_group"
    /\ dry_run_arg = "False"
    /\ cl_pc = "done"
    /\ Len(remote_calls) = 1
    /\ remote_calls[1].kind = "exception"
    /\ returned[1].status = FAILED

\* C11: delete_batch handles the items strictly in input order and a FAILED
\* outcome does not stop the batch: every item is attempted (outside dry-run
\* each outcome is SUCCESS or FAILED), remote calls are issued in item order,
\* and the summary holds one outcome per item, in input order, with failed
\* counting the FAILED ones.
C11_BatchContinuesAfterFailure ==
    op = "delete_batch" =>
        /\ cl_pc # "raised"
        /\ Len(summary.results) = item_idx - 1
        /\ \A i \in 1..Len(summary.results) :
             /\ summary.results[i].sg_id = items[i].id
             /\ summary.results[i].sg_name = items[i].name
             /\ (~DryRun => summary.results[i].status \in {SUCCESS, FAILED})
        /\ \A j, k \in DOMAIN remote_calls :
             j < k => remote_calls[j].item < remote_calls[k].item
        /\ (cl_pc = "done" =>
              /\ Len(summary.results) = Len(items)
              /\ summary.failed =
                   Cardinality({i \in 1..Len(items) :
                                   summary.results[i].status = FAILED}))

C11_Witness ==
    /\ op = "delete_batch"
    /\ cl_pc = "done"
    /\ Len(items) >= 2
    /\ summary.results[1].status = FAILED
    /\ summary.results[2].status = SUCCESS
    /\ Len(remote_calls) = 2
    /\ summary.failed = 1

\* C12: in delete_with_confirmation every item for which confirm_callback
\* returned False or raised gets a SKIPPED outcome and no remote delete call;
\* every item for which it returned True is passed to delete_security_group
\* (DRY_RUN in dry-run, otherwise SUCCESS or FAILED, with a remote call
\* whenever the result is SUCCESS).
C12_UnconfirmedItemsSkipped ==
    op = "delete_with_confirmation" =>
        /\ Len(confirmations) = Len(summary.results)
        /\ \A i \in 1..Len(confirmations) :
             LET calls == {k \in DOMAIN remote_calls : remote_calls[k].item = i}
                 res == summary.results[i]
             IN  /\ res.sg_id = items[i].id
                 /\ (confirmations[i] \in {"False", "raises"} =>
                       /\ res.status = SKIPPED
                       /\ calls = {})
                 /\ (confirmations[i] = "True" =>
                       /\ res.status \in
                            (IF DryRun THEN {DRY_RUN} ELSE {SUCCESS, FAILED})
                       /\ Cardinality(calls) <= 1
                       /\ (res.status = SUCCESS => Cardinality(calls) = 1))

C12_Witness ==
    /\ op = "delete_with_confirmation"
    /\ cl_pc = "done"
    /\ confirmations = <<"False", "True">>
    /\ summary.results[1].status = SKIPPED
    /\ summary.results[2].status = SUCCESS
    /\ Len(remote_calls) = 1
    /\ remote_calls[1].item = 2

\* C13: the cleaner validates that a security group can be deleted before
\* attempting the deletion: delete_batch and delete_with_confirmation never
\* issue a remote delete call for an item for which can_delete returns False
\* (is_default true or name 'default').
C13_NoRemoteCallForProtectedItem ==
    op \in {"delete_batch", "delete_with_confirmation"} =>
        \A k \in DOMAIN remote_calls :
            can_delete(items[remote_calls[k].item]).ok

\* C14: every deletion method of SecurityGroupCleaner defaults to dry-run:
\* delete_security_group, delete_batch or delete_with_confirmation called
\* without a dry_run argument never issues a remote delete call.
C14_DefaultsToDryRun ==
    (/\ op \in {"delete_security_group", "delete_batch",
                "delete_with_confirmation"}
     /\ dry_run_arg = "omitted") =>
        remote_calls = <<>>

(***************************************************************************)
(* Region orchestrator claims, continued                                   *)
(***************************************************************************)
\* C15: the progress callback of scan_regions is purely observational: for
\* any callback behaviour, a raising callback included, every region task
\* hands over exactly what the scan of its region gave (so results_by_region,
\* errors and the totals are those of a run without callback), and
\* scan_regions never raises once its tasks are launched.
C15_CallbackIsObservational ==
    /\ \A t \in DOMAIN task :
         (task[t] = "done" /\ yielded[t].kind # "unscanned") =>
             future[t] = yielded[t]
    /\ (reg_pc \in {"unwinding", "raised"} => task = <<>>)

\* C16: during scan_regions exactly one evaluation task exists per entry of
\* the region list, only submitted tasks run, a task that ran is never run
\* again, scan_regions returns with every entry's task launched and done, and
\* at every moment at most max_workers (default 10) evaluations are running.
C16_OneTaskPerRegionBoundedWorkers ==
    /\ [](reg_pc \in {"pool", "unwinding", "returned"} =>
            /\ DOMAIN task = DOMAIN regions
            /\ submitted <= Len(regions)
            /\ \A t \in DOMAIN task : task[t] # "queued" => t <= submitted
            /\ Cardinality(Running) <= max_workers
            /\ (reg_pc = "returned" =>
                  /\ submitted = Len(regions)
                  /\ \A t \in DOMAIN task : task[t] = "done"))
    /\ [][\A t \in DOMAIN task :
            /\ (task[t] = "running" => task'[t] \in {"running", "done"})
            /\ (task[t] = "done" => task'[t] = "done")]_vars

C16_Witness ==
    /\ reg_pc = "pool"
    /\ Cardinality(Running) = max_workers
    /\ \E t \in DOMAIN task : t <= submitted /\ task[t] = "queued"

\* C17: scan_regions is a merge barrier: it returns its MultiRegionScanResult
\* only after every launched region task has finished and been merged, and,
\* the worker pool being scheduled fairly, once the tasks are launched
\* scan_regions eventually returns.
C17_MergeBarrier ==
    /\ [](reg_pc = "returned" =>
            \A t \in DOMAIN task : task[t] = "done" /\ t \in merged)
    /\ ((reg_pc = "pool") ~> (reg_pc = "returned"))

(***************************************************************************)
(* Cleaner claims, continued                                               *)
(***************************************************************************)
\* C18: can_delete is a pure function that makes no remote call: it returns
\* (False, a non-empty reason) for every item whose is_default is true or
\* whose name is 'default', and (True, '') for every other item.
C18_CanDeleteGuardsDefaults ==
    (op = "can_delete" /\ cl_pc = "done") =>
        LET sg == items[1]
            protected ==
                \/ ("is_default" \in DOMAIN sg /\ sg.is_default)
                \/ ("name" \in DOMAIN sg /\ sg.name = "default")
        IN  /\ Len(returned) = 1
            /\ returned[1].ok = ~protected
            /\ (protected => returned[1].reason # "")
            /\ (~protected => returned[1].reason = "")
            /\ remote_calls = <<>>
            /\ ec2_client = "None"

C18_Witness ==
    /\ op = "can_delete"
    /\ cl_pc = "done"
    /\ DOMAIN items[1] = {"id", "name", "is_default"}
    /\ items[1].is_default
    /\ items[1].name = "web"
    /\ ~returned[1].ok

(***************************************************************************)
(* Scanner claims, continued                                               *)
(***************************************************************************)
\* C19: when the inventory fetch of scan() fails, scan() does not raise: it
\* records exactly one error string for that failure, treats the inventory as
\* empty (total_count = 0), still runs the evidence step, and returns a
\* ScanResult whose unused_resources is empty.
C19_FetchFailureRecordedNotRaised ==
    fetch_status = "raised" =>
        /\ scan_pc \in {"sources", "compute", "done"}
        /\ Cardinality({i \in DOMAIN scan_errors :
                           scan_errors[i] = ErrAllResources}) = 1
        /\ scan_errors[1] = ErrAllResources
        /\ all_resources = <<>>
        /\ total_count = 0
        /\ (scan_pc = "done" =>
              /\ unused_resources = <<>>
              /\ source_idx > NumSources(resource_type)
              /\ in_use_status \in {"returned", "raised"}
              /\ Len(scan_errors) =
                   1 + (IF in_use_status = "raised" THEN 1 ELSE 0))

C19_Witness ==
    /\ fetch_status = "raised"
    /\ scan_pc = "done"
    /\ inventory # <<>>
    /\ returned_union # {}
    /\ in_use_status = "returned"
    /\ scan_errors = <<ErrAllResources>>

RECURSIVE UnionOfPages(_, _)
UnionOfPages(pages, n) ==
    IF n = 0 THEN {} ELSE pages[n] \cup UnionOfPages(pages, n - 1)

\* C20 as stated: a collector whose remote call fails with a remote-service
\* error, on any page of its paginated listing, swallows the error and
\* returns an empty result without raising.
C20_FailedCollectorReturnsEmpty ==
    (col_error = "ClientError" /\ col_pc # "paging") =>
        /\ col_pc = "returned"
        /\ sg_ids = {}

\* C20 as the code has it: a collector whose paginated listing fails with a
\* remote-service error swallows the error without raising and returns the
\* ids of the pages read before the failing one: nothing when the first page
\* fails, a partial result otherwise.
C20_FailedCollectorReturnsPagesRead ==
    (col_error = "ClientError" /\ col_pc # "paging") =>
        /\ col_pc = "returned"
        /\ sg_ids = UnionOfPages(col_pages, col_fail_at - 1)

C20_Witness ==
    /\ col_error = "ClientError"
    /\ col_pc = "returned"
    /\ col_fail_at = 2
    /\ col_pages[1] # {}
    /\ sg_ids = col_pages[1]

\* C21: in delete_batch and delete_with_confirmation the progress callback is
\* invoked exactly once per item, with that item's outcome and after the
\* outcome was added to the summary; an exception it raises never propagates,
\* changes no recorded outcome or count, and the remaining items are still
\* processed.
C21_ProgressCallbackIsolated ==
    op \in {"delete_batch", "delete_with_confirmation"} =>
        /\ cl_pc # "raised"
        /\ Len(summary.results) = item_idx - 1
        /\ summary.total = Len(summary.results)
        /\ (cl_pc = "done" => Len(summary.results) = Len(items))
        /\ (cl_progress = "none" => progress_seen = <<>>)
        /\ (cl_progress # "none" =>
              /\ Len(progress_seen) = Len(summary.results)
              /\ \A i \in 1..Len(progress_seen) :
                   /\ progress_seen[i].result = summary.results[i]
                   /\ progress_seen[i].position = i
                   /\ progress_seen[i].result.sg_id = items[i].id)

C21_Witness ==
    /\ op = "delete_batch"
    /\ cl_progress = "raising"
    /\ cl_pc = "done"
    /\ Len(items) = 2
    /\ Len(progress_seen) = 2
    /\ progress_seen[1].raised
    /\ summary.results[2].status = SUCCESS

\* the DeleteResults the running deletion method has produced so far
ProducedResults == Range(returned) \cup Range(summary.results)

\* C22: every DeleteResult produced by delete_security_group, delete_batch or
\* delete_with_confirmation has an error_message (not None) if and only if
\* its status is FAILED.
C22_ErrorMessageIffFailed ==
    op \in {"delete_security_group", "delete_batch",
            "delete_with_confirmation"} =>
        \A r \in ProducedResults :
            (r.error_message # NoneStr) <=> (r.status = FAILED)

C22_Witness ==
    /\ op = "delete_with_confirmation"
    /\ cl_pc = "done"
    /\ Len(summary.results) = 2
    /\ summary.results[1].status = FAILED
    /\ summary.results[1].error_message = ""
    /\ summary.results[2].status = SKIPPED
    /\ summary.results[2].error_message = NoneStr

\* the error codes the claim lists as known
KnownCodes ==
    {"DependencyViolation", "InvalidGroup.NotFound", "InvalidGroup.InUse",
     "UnauthorizedOperation", "InvalidPermission.NotFound", "CannotDelete"}

\* C23: when the remote delete call raises a ClientError, the outcome is
\* FAILED and its error_message is the fixed ERROR_MESSAGES text when the
\* error code is one of the six known codes, and otherwise the raw remote
\* message, unchanged.
C23_KnownCodesTranslated ==
    /\ DOMAIN ERROR_MESSAGES = KnownCodes
    /\ (op = "delete_security_group" /\ cl_pc = "done") =>
          \A k \in DOMAIN remote_calls :
              remote_calls[k].kind = "client_error" =>
                  /\ returned[1].status = FAILED
                  /\ returned[1].error_message =
                       (IF remote_calls[k].code \in KnownCodes
                        THEN ERROR_MESSAGES[remote_calls[k].code]
                        ELSE remote_calls[k].message)
                  /\ (remote_calls[k].code \in KnownCodes =>
                        returned[1].error_message \notin RemoteMessages)

C23_Witness ==
    /\ op = "delete_security_group"
    /\ cl_pc = "done"
    /\ Len(remote_calls) = 1
    /\ remote_calls[1].code = "CannotDelete"
    /\ remote_calls[1].message = "Request limit exceeded."
    /\ returned[1].error_message = ERROR_MESSAGES["CannotDelete"]

\* C24: every item handed to the deletion protocol gets exactly one of the
\* four outcomes DRY_RUN, SKIPPED, SUCCESS, FAILED, and a recorded outcome is
\* never changed afterwards; delete_batch and delete_security_group never
\* produce SKIPPED, and DRY_RUN is produced only when dry_run is true.
C24_OneFinalOutcomePerItem ==
    /\ [](op \in {"delete_security_group", "delete_batch",
                  "delete_with_confirmation"} =>
            /\ \A r \in ProducedResults :
                 /\ r.status \in {DRY_RUN, SKIPPED, SUCCESS, FAILED}
                 /\ (r.status = SKIPPED => op = "delete_with_confirmation")
                 /\ (r.status = DRY_RUN => DryRun)
            /\ (op = "delete_security_group" =>
                  (cl_pc = "done" <=> Len(returned) = 1))
            /\ (op # "delete_security_group" =>
                  /\ Len(summary.results) = item_idx - 1
                  /\ (cl_pc = "done" => Len(summary.results) = Len(items))))
    /\ [][/\ \A i \in 1..Len(summary.results) :
               /\ i <= Len(summary'.results)
               /\ summary'.results[i] = summary.results[i]
          /\ (returned # <<>> => returned' = returned)]_vars

C24_Witness ==
    /\ op = "delete_with_confirmation"
    /\ cl_pc = "done"
    /\ DryRun
    /\ Len(summary.results) = 2
    /\ summary.results[1].status = SKIPPED
    /\ summary.results[2].status = DRY_RUN

RECURSIVE IsSubsequence(_, _)
IsSubsequence(u, w) ==
    IF u = <<>> THEN TRUE
    ELSE IF w = <<>> THEN FALSE
    ELSE IF Head(u) = Head(w) THEN IsSubsequence(Tail(u), Tail(w))
    ELSE IsSubsequence(u, Tail(w))

\* C25: the unused_resources of scan() preserve inventory encounter order:
\* they are a subsequence of the fetched inventory, in the same relative
\* order, nothing re-sorted and no duplicate introduced.
C25_UnusedPreservesInventoryOrder ==
    scan_pc = "done" =>
        /\ IsSubsequence(unused_resources, all_resources)
        /\ IsSubsequence(unused_resources, inventory)

C25_Witness ==
    /\ scan_pc = "done"
    /\ Len(unused_resources) = 2
    /\ unused_resources[1] # unused_resources[2]
    /\ unused_resources = inventory

(***************************************************************************)
(* Region orchestrator claims: merge                                       *)
(***************************************************************************)
\* the list entries whose task handed over a ScanResult
WithResult == {t \in DOMAIN future : future[t].result # <<>>}

RECURSIVE SumTotalOfTasks(_)
SumTotalOfTasks(ts) ==
    IF ts = {} THEN 0
    ELSE LET t == CHOOSE x \in ts : TRUE
         IN  future[t].result[1].total_count + SumTotalOfTasks(ts \ {t})

\* C26: when a region's evaluation returns a ScanResult whose errors list is
\* non-empty, scan_regions keeps that ScanResult in results_by_region, counts
\* it in the totals, and records exactly those errors under the region in
\* errors; a region whose ScanResult has no errors gets no entry in errors.
C26_ResultErrorsFolded ==
    reg_pc = "returned" =>
        /\ \A t \in WithResult :
             LET result == future[t].result[1]
             IN  /\ regions[t] \in DOMAIN results_by_region
                 /\ results_by_region[regions[t]] = result
                 /\ (result.errors # <<>> =>
                       /\ regions[t] \in DOMAIN errors
                       /\ errors[regions[t]] = result.errors)
                 /\ (result.errors = <<>> => regions[t] \notin DOMAIN errors)
        /\ total_resources = SumTotalOfTasks(WithResult)
        /\ total_unused = SumUnusedOfTasks(WithResult)

\* the merge of the first n futures taken in list order
RECURSIVE MergeInListOrder(_)
MergeInListOrder(n) ==
    IF n = 0
    THEN [results_by_region |-> EmptyDict, errors |-> EmptyDict,
          total_resources |-> 0, total_unused |-> 0]
    ELSE MergeFuture(MergeInListOrder(n - 1), future[n])

\* C27: the MultiRegionScanResult does not depend on the order in which the
\* region tasks complete: whatever the interleaving, results_by_region,
\* errors, total_resources and total_unused are those obtained by merging the
\* same per-region outcomes in list order.
C27_MergeOrderIrrelevant ==
    reg_pc = "returned" =>
        [results_by_region |-> results_by_region, errors |-> errors,
         total_resources |-> total_resources, total_unused |-> total_unused]
          = MergeInListOrder(Len(regions))

\* C30: with a progress callback that does not raise, every region task
\* delivers exactly one 'scanning' notification followed by exactly one
\* terminal notification, 'complete' or 'error', and the terminal one is
\* 'complete' exactly when the region ends up in results_by_region.
C30_NotificationsMatchOutcome ==
    progress_callback = "quiet" =>
        \A t \in DOMAIN task :
            /\ (task[t] = "queued" => notified[t] = <<>>)
            /\ (task[t] = "running" => notified[t] = <<"scanning">>)
            /\ (task[t] = "done" =>
                  notified[t] \in {<<"scanning", "complete">>,
                                   <<"scanning", "error">>})
            /\ (reg_pc = "returned" =>
                  (notified[t][2] = "complete"
                     <=> regions[t] \in DOMAIN results_by_region))

(***************************************************************************)
(* Elastic IP claims                                                       *)
(***************************************************************************)
\* C28: EIPScanner.scan never reports as unused an Elastic IP that has an
\* association (AssociationId present in its address record), whatever
\* address records the listing returns, records without an AllocationId
\* included.  Stated for the runs in which both describe_addresses calls saw
\* the same listing, so that an association made or removed between the two
\* calls is not what the property is judged on.
C28_AssociatedEipNeverUnused ==
    (/\ resource_type = "elastic_ip"
     /\ scan_pc = "done"
     /\ all_resources =
            [i \in DOMAIN inventory |-> EipResource(inventory[i])]) =>
        \A i \in DOMAIN unused_resources :
            ~unused_resources[i].association_id

\* C29: a resource whose inventory record has a missing or empty identifier
\* never appears in the unused_resources of scan(); for the Elastic IP
\* scanner, an address record without AllocationId.
C29_NoIdNeverUnused ==
    (resource_type = "elastic_ip" /\ scan_pc = "done") =>
        \A i \in DOMAIN unused_resources :
            unused_resources[i].id # NotAvailable

====
